---- MODULE Spec2Model ----
(***************************************************************************)
(* A model of edegal's album tree (backend/edegal/models/album.py) and     *)
(* media derivation (backend/edegal/models/media.py).                      *)
(*                                                                         *)
(* Strings are sequences of one-character strings, so that concatenation,  *)
(* prefix tests and regular-expression search are computed character by    *)
(* character.  The database is the tables albums, pictures and media; the  *)
(* tree order MPTT keeps (tree_id, lft) is the sequence order.             *)
(*                                                                         *)
(* Series.resequence is outside these files: the model records whether a   *)
(* save reached the call, and keeps no previous/next pointers.             *)
(***************************************************************************)
EXTENDS Integers, Sequences, FiniteSets, TLC

VARIABLES
    albums,     \* Album rows: id -> [parent, slug, title, description, path, cover, date,
                \* series]
    order,      \* Album ids in MPTT tree order (tree_id, lft): a preorder
    pictures,   \* Picture rows: id -> [album, path, is_public]
    media,      \* Media rows, by id: [picture, role, spec, src, width, height, format]
    files,      \* the file system: path -> the image stored there, [w, h, exif]
    specs,      \* MediaSpec rows: id -> [role, size, format, quality, active]
    inst,       \* the Album instance the caller holds: [id, orig]
    last,       \* the last operation and how it ended
    ops,        \* the number of operations run so far
    guess,      \* a call of _guess_date: its arguments and, once done, its result
    workers     \* the task workers: what each is running, [pc, original, todo]

vars == <<albums, order, pictures, media, files, specs, inst, last, ops, guess, workers>>

(* ----------------------------- bounds -------------------------------- *)
MaxAlbums == 3
MaxPictures == 2
MaxOps == 5
MaxDeliveries == 3

(* ----------------------------- strings ------------------------------- *)
Null == 0

\* F applied to the value of x, which is computed once
With(x, F(_)) == CHOOSE y \in {F(v) : v \in {x}} : TRUE

StartsWith(s, p) == Len(p) <= Len(s) /\ SubSeq(s, 1, Len(p)) = p

\* album.py line 282: the slug of a parentless album with a title and no slug
ROOT_SLUG == <<"-", "r", "o", "o", "t", "-", "a", "l", "b", "u", "m">>

\* utils.slugify, one character: letters are lower-cased, digits kept, the rest dropped
SlugChar(c) ==
    CASE c = "A" -> <<"a">>
      [] c = "B" -> <<"b">>
      [] c \in {"a", "b", "0", "1", "2", "3", "-"} -> <<c>>
      [] OTHER -> <<>>

RECURSIVE slugify(_)
slugify(t) == IF t = <<>> THEN <<>> ELSE SlugChar(Head(t)) \o slugify(Tail(t))

\* the slug of the i-th picture
PicSlug(i) == <<"p", <<"x", "y", "z", "w">>[((i - 1) % 4) + 1]>>

(* ------------------------------ tree --------------------------------- *)
\* MPTTModel.get_ancestors(): root first, the parent last
RECURSIVE get_ancestors(_, _)
get_ancestors(albs, n) ==
    IF albs[n].parent = Null THEN <<>>
    ELSE Append(get_ancestors(albs, albs[n].parent), albs[n].parent)

Range(s) == {s[i] : i \in 1..Len(s)}

AncestorSet(albs, n) == Range(get_ancestors(albs, n))

\* n and its descendants
Subtree(albs, n) == {x \in DOMAIN albs : x = n \/ n \in AncestorSet(albs, x)}

\* MPTTModel.get_family(): ancestors, the node, its descendants, in tree order
get_family(db, n) ==
    SelectSeq(db.order,
              LAMBDA x : x \in AncestorSet(db.albums, n) \/ x \in Subtree(db.albums, n))

\* the index after which a last child of p is inserted in the tree order ord
EndOfBlock(albs, ord, p) ==
    LET idx == {i \in 1..Len(ord) : ord[i] \in Subtree(albs, p)}
    IN  CHOOSE i \in idx : \A j \in idx : j <= i

InsertAt(ord, i, block) == SubSeq(ord, 1, i) \o block \o SubSeq(ord, i + 1, Len(ord))

\* MPTT: a new node or a moved subtree becomes the last child of its parent,
\* or a new tree after all others
PlaceLast(albs, ord, p, block) ==
    IF p = Null THEN ord \o block ELSE InsertAt(ord, EndOfBlock(albs, ord, p), block)

(* --------------------------- date guessing ---------------------------- *)
\* no date: the value None of a date field
NoDate == <<>>

Digits == {"0", "1", "2", "3", "4", "5", "6", "7", "8", "9"}

DigitVal(c) ==
    CASE c = "0" -> 0 [] c = "1" -> 1 [] c = "2" -> 2 [] c = "3" -> 3 [] c = "4" -> 4
      [] c = "5" -> 5 [] c = "6" -> 6 [] c = "7" -> 7 [] c = "8" -> 8 [] c = "9" -> 9

\* int() of a string of digits
RECURSIVE int(_)
int(s) == IF s = <<>> THEN 0 ELSE int(SubSeq(s, 1, Len(s) - 1)) * 10 + DigitVal(s[Len(s)])

\* one item of a pattern: a character class, whether it is optional (?), and the
\* named group it belongs to
Item(class, opt, group) == [class |-> class, opt |-> opt, group |-> group]

\* YEAR = \d{4}, MONTH = [01]?\d, DAY = [0-3]?\d
YEAR == <<Item("d", FALSE, "year"), Item("d", FALSE, "year"), Item("d", FALSE, "year"),
          Item("d", FALSE, "year")>>
MONTH == <<Item("01", TRUE, "month"), Item("d", FALSE, "month")>>
DAY == <<Item("0-3", TRUE, "day"), Item("d", FALSE, "day")>>

\* the ISO pattern {YEAR}-{MONTH}-{DAY} and the Finnish pattern {DAY}.{MONTH}.{YEAR},
\* whose dots are unescaped
GUESS_DATE_REGEXEN ==
    << YEAR \o <<Item("-", FALSE, "")>> \o MONTH \o <<Item("-", FALSE, "")>> \o DAY,
       DAY \o <<Item(".", FALSE, "")>> \o MONTH \o <<Item(".", FALSE, "")>> \o YEAR >>

\* whether a character is in a class; an unescaped dot is any character but a newline
Accepts(class, c) ==
    CASE class = "d" -> c \in Digits
      [] class = "01" -> c \in {"0", "1"}
      [] class = "0-3" -> c \in {"0", "1", "2", "3"}
      [] class = "-" -> c = "-"
      [] class = "." -> c # "\n"

NoGroups == [year |-> <<>>, month |-> <<>>, day |-> <<>>]

Capture(groups, group, c) ==
    IF group = "" THEN groups ELSE [groups EXCEPT ![group] = Append(@, c)]

\* the match of items k.. of a pattern at position i of text, by backtracking: an
\* optional item is taken if the rest then matches, else skipped; <<groups>> or <<>>
RECURSIVE MatchHere(_, _, _, _, _)
MatchHere(text, i, regex, k, groups) ==
    IF k > Len(regex) THEN <<groups>>
    ELSE LET taken == IF i <= Len(text) /\ Accepts(regex[k].class, text[i])
                      THEN MatchHere(text, i + 1, regex, k + 1,
                                     Capture(groups, regex[k].group, text[i]))
                      ELSE <<>>
         IN  IF regex[k].opt /\ taken = <<>> THEN MatchHere(text, i, regex, k + 1, groups)
             ELSE taken

RECURSIVE SearchFrom(_, _, _)
SearchFrom(regex, text, i) ==
    IF i > Len(text) THEN <<>>
    ELSE With(MatchHere(text, i, regex, 1, NoGroups), LAMBDA m :
             IF m # <<>> THEN m ELSE SearchFrom(regex, text, i + 1))

\* regex.search(text): the leftmost match, <<groups>>, or <<>> for None
search(regex, text) == SearchFrom(regex, text, 1)

IsLeap(y) == y % 4 = 0 /\ (y % 100 # 0 \/ y % 400 = 0)

DaysInMonth(y, m) ==
    IF m = 2 THEN (IF IsLeap(y) THEN 29 ELSE 28)
    ELSE IF m \in {4, 6, 9, 11} THEN 30 ELSE 31

\* datetime.date(y, m, d) raises ValueError unless the date exists
ValidDate(y, m, d) ==
    /\ y >= 1 /\ y <= 9999
    /\ m >= 1 /\ m <= 12
    /\ d >= 1 /\ d <= DaysInMonth(y, m)

\* the loop of Album._guess_date over GUESS_DATE_REGEXEN
RECURSIVE GuessFromText(_, _, _)
GuessFromText(regexen, description, title) ==
    IF regexen = <<>> THEN NoDate
    ELSE With(search(Head(regexen), description), LAMBDA md :
         With(IF md # <<>> THEN md ELSE search(Head(regexen), title), LAMBDA match :
            IF match # <<>>
               /\ ValidDate(int(match[1].year), int(match[1].month), int(match[1].day))
            THEN <<int(match[1].year), int(match[1].month), int(match[1].day)>>
            ELSE GuessFromText(Tail(regexen), description, title)))

\* Album._guess_date; exif is the date of the cover picture's EXIF data, or NoDate
\* when reading it raised one of the exceptions caught
_guess_date(exif, description, title) ==
    IF exif # NoDate THEN exif ELSE GuessFromText(GUESS_DATE_REGEXEN, description, title)

\* settings.MEDIA_ROOT
MEDIA_ROOT == <<"/m">>

\* the file a FileField names: MEDIA_ROOT joined with src
FieldPath(src) == MEDIA_ROOT \o <<"/">> \o src

\* Media.objects.get(picture=picture, role='original'): the matching rows
OriginalRows(db, p) ==
    {i \in 1..Len(db.media) : db.media[i].picture = p /\ db.media[i].role = "original"}

\* a file that is no image: opening it as an image fails
Garbage == [w |-> 0, h |-> 0, exif |-> NoDate]

\* the date a camera with an unset clock writes, "0000:00:00 00:00:00"
UnsetClock == <<0, 0, 0>>

\* cover_picture.original.get_exif_datetime().date(): the date, or the exception
\* raised: there is no cover or no original (None has no such attribute), the file
\* is missing or no image, the metadata is absent or is no date
ReadExif(db, cover) ==
    IF cover = Null \/ OriginalRows(db, cover) = {}
    THEN [err |-> "AttributeError", date |-> NoDate]
    ELSE LET src == FieldPath(db.media[CHOOSE i \in OriginalRows(db, cover) :
                                           \A j \in OriginalRows(db, cover) : i <= j].src)
         IN  IF src \notin DOMAIN db.files THEN [err |-> "FileNotFoundError", date |-> NoDate]
             ELSE IF db.files[src] = Garbage
             THEN [err |-> "UnidentifiedImageError", date |-> NoDate]
             ELSE IF db.files[src].exif = NoDate THEN [err |-> "TypeError", date |-> NoDate]
             ELSE IF ~ValidDate(db.files[src].exif[1], db.files[src].exif[2],
                                db.files[src].exif[3])
             THEN [err |-> "ValueError", date |-> NoDate]
             ELSE [err |-> "", date |-> db.files[src].exif]

\* album.py line 249: the exceptions _guess_date catches around the EXIF read
Caught == {"RuntimeError", "LookupError", "TypeError", "ValueError", "AttributeError"}

(* ------------------------------ Album -------------------------------- *)
\* Album._make_path
_make_path(db, mem) ==
    IF mem.parent = Null THEN <<"/">>
    ELSE LET pth == db.albums[mem.parent].path \o <<"/">> \o mem.slug
         IN  IF StartsWith(pth, <<"/", "/">>) THEN Tail(pth) ELSE pth

\* Picture.save: the picture's path is derived from its album's path and its slug
PicturePath(db, a, i) ==
    LET pth == db.albums[a].path \o <<"/">> \o PicSlug(i)
    IN  IF StartsWith(pth, <<"/", "/">>) THEN Tail(pth) ELSE pth

\* the join cover_picture__media__role='thumbnail'
HasThumbnail(db, pic) ==
    \E i \in 1..Len(db.media) : db.media[i].picture = pic /\ db.media[i].role = "thumbnail"

\* the children that have a cover, with or without a thumbnail
SubalbumsWithCover(db, id) ==
    SelectSeq(db.order, LAMBDA x : db.albums[x].parent = id /\ db.albums[x].cover # Null)

\* self.subalbums.filter(cover_picture__media__role='thumbnail'): the children
\* whose cover has a thumbnail, in tree order
CoveredSubalbums(db, id) ==
    SelectSeq(db.order,
              LAMBDA x : /\ db.albums[x].parent = id
                         /\ db.albums[x].cover # Null
                         /\ HasThumbnail(db, db.albums[x].cover))

\* self.pictures.all(): the album's pictures, oldest first
PicturesOf(db, id) == {i \in DOMAIN db.pictures : db.pictures[i].album = id}

Min(S) == CHOOSE x \in S : \A y \in S : x <= y

\* Album._select_cover_picture; the related managers of an unsaved instance are empty
_select_cover_picture(db, id) ==
    IF id = Null THEN Null
    ELSE IF CoveredSubalbums(db, id) # <<>>
         THEN db.albums[Head(CoveredSubalbums(db, id))].cover
         ELSE IF PicturesOf(db, id) # {} THEN Min(PicturesOf(db, id)) ELSE Null

\* the table without its unique constraint
NoUniqueTogether(db, id, m) == {}

\* Meta.unique_together = [('parent', 'slug')]: the rows that collide with m;
\* as in SQL, a NULL parent collides with nothing
UniqueTogetherClash(db, id, m) ==
    {x \in DOMAIN db.albums :
        x # id /\ m.parent # Null /\ db.albums[x].parent = m.parent /\ db.albums[x].slug = m.slug}

\* MPTT refuses to make a node a child of itself or of one of its descendants
InvalidMove(db, id, m) ==
    id # Null /\ m.parent # Null /\ m.parent \in Subtree(db.albums, id)

\* the write of super(Album, self).save(): the row is inserted or updated and the
\* tree order kept, unless the unique constraint refuses it
InsertOrUpdate(db, id, m) ==
    IF UniqueTogetherClash(db, id, m) # {}
    THEN [err |-> "IntegrityError", db |-> db, id |-> id]
    ELSE IF id = Null
    THEN LET new == Len(db.order) + 1
         IN  [err |-> "", id |-> new,
              db |-> [db EXCEPT !.albums = db.albums @@ (new :> m),
                                !.order = PlaceLast(db.albums, db.order, m.parent, <<new>>)]]
    ELSE IF db.albums[id].parent = m.parent
    THEN [err |-> "", id |-> id, db |-> [db EXCEPT !.albums[id] = m]]
    ELSE LET block == SelectSeq(db.order, LAMBDA x : x \in Subtree(db.albums, id))
             rest == SelectSeq(db.order, LAMBDA x : x \notin Subtree(db.albums, id))
         IN  [err |-> "", id |-> id,
              db |-> [db EXCEPT !.albums[id] = m,
                                !.order = PlaceLast(db.albums, rest, m.parent, block)]]

\* a save that writes the row before the move is found invalid
SuperSaveWriteFirst(db, id, m) ==
    IF InvalidMove(db, id, m)
    THEN [err |-> "InvalidMove", db |-> [db EXCEPT !.albums[id] = m], id |-> id]
    ELSE InsertOrUpdate(db, id, m)

\* super(Album, self).save(): the row is inserted or updated and the tree order kept,
\* or the save is refused and nothing is written
SuperSave(db, id, m) ==
    IF InvalidMove(db, id, m) THEN [err |-> "InvalidMove", db |-> db, id |-> id]
    ELSE InsertOrUpdate(db, id, m)

\* for picture in self.pictures.all(): picture.save()
SavePictures(db, a) ==
    [db EXCEPT !.pictures =
        [i \in DOMAIN db.pictures |->
            IF db.pictures[i].album = a
            THEN [db.pictures[i] EXCEPT !.path = PicturePath(db, a, i)]
            ELSE db.pictures[i]]]

\* a save that selects the cover and guesses the date whether they are set or not
SaveSelfAfresh(db, id, mem, orig) ==
    LET slug1 == IF mem.title # <<>> /\ mem.slug = <<>>
                 THEN (IF mem.parent # Null THEN slugify(mem.title) ELSE ROOT_SLUG)
                 ELSE mem.slug
        m1 == [mem EXCEPT !.slug = slug1]
        path1 == IF slug1 # <<>> THEN _make_path(db, m1) ELSE mem.path
        cover1 == _select_cover_picture(db, id)
    IN  With(ReadExif(db, cover1),
             LAMBDA exif :
        IF exif.err # "" /\ exif.err \notin Caught
        THEN [err |-> exif.err, id |-> id, mem |-> mem, path_changed |-> FALSE, db |-> db]
        ELSE
        With([m1 EXCEPT !.path = path1, !.cover = cover1,
                        !.date = _guess_date(exif.date, mem.description, mem.title)],
             LAMBDA m2 :
        With(SuperSave(db, id, m2), LAMBDA sup :
            [err |-> sup.err, id |-> sup.id, mem |-> m2,
             path_changed |-> (m2.slug # <<>> /\ m2.path # orig),
             db |-> IF sup.err = "" THEN SavePictures(sup.db, sup.id) ELSE sup.db])))

\* Album.save up to and including the save of the album's own row and pictures
\* (lines 278-299); orig is the instance's __original_path
SaveSelf(db, id, mem, orig) ==
    LET slug1 == IF mem.title # <<>> /\ mem.slug = <<>>
                 THEN (IF mem.parent # Null THEN slugify(mem.title) ELSE ROOT_SLUG)
                 ELSE mem.slug
        m1 == [mem EXCEPT !.slug = slug1]
        path1 == IF slug1 # <<>> THEN _make_path(db, m1) ELSE mem.path
        cover1 == IF mem.cover = Null THEN _select_cover_picture(db, id) ELSE mem.cover
    IN  With(IF mem.date = NoDate THEN ReadExif(db, cover1) ELSE [err |-> "", date |-> mem.date],
             LAMBDA exif :
        IF exif.err # "" /\ exif.err \notin Caught
        THEN [err |-> exif.err, id |-> id, mem |-> mem, path_changed |-> FALSE, db |-> db]
        ELSE
        With([m1 EXCEPT !.path = path1, !.cover = cover1,
                        !.date = IF mem.date = NoDate
                                 THEN _guess_date(exif.date, mem.description, mem.title)
                                 ELSE mem.date], LAMBDA m2 :
        With(SuperSave(db, id, m2), LAMBDA sup :
            [err |-> sup.err, id |-> sup.id, mem |-> m2,
             path_changed |-> (m2.slug # <<>> /\ m2.path # orig),
             db |-> IF sup.err = "" THEN SavePictures(sup.db, sup.id) ELSE sup.db])))

\* one invocation of Album.save: the album, the value of traverse and the exception
\* it ended with
Call(album, traverse, err) == [album |-> album, traverse |-> traverse, err |-> err]

\* a nested save that propagates in its turn: the album is saved and then its parent
NestedSaveTraversing(db, album, mem) ==
    With(SaveSelf(db, album, mem, mem.path), LAMBDA r :
        IF r.err # "" \/ mem.parent = Null
        THEN [err |-> r.err, db |-> r.db, calls |-> <<Call(album, TRUE, r.err)>>]
        ELSE With(SaveSelf(r.db, mem.parent, r.db.albums[mem.parent],
                           r.db.albums[mem.parent].path), LAMBDA u :
                 [err |-> u.err, db |-> u.db,
                  calls |-> <<Call(album, TRUE, u.err), Call(mem.parent, FALSE, u.err)>>]))

\* album.save(traverse=False), album.py line 328: the album's own row and pictures
\* are saved, and neither _update_family nor the resequencing is run (lines 301-305)
NestedSave(db, album, mem) ==
    With(SaveSelf(db, album, mem, mem.path), LAMBDA r :
        [err |-> r.err, db |-> r.db, calls |-> <<Call(album, FALSE, r.err)>>])

\* the loop of Album._update_family: album.save(traverse=False) for every album of
\* the family whose path, as loaded, differs from self.path; an error ends the loop
RECURSIVE VisitFamily(_, _, _, _)
VisitFamily(db, family, loaded, selfpath) ==
    IF family = <<>> THEN [err |-> "", db |-> db, calls |-> <<>>]
    ELSE LET album == Head(family)
         IN  IF loaded[album].path = selfpath
             THEN VisitFamily(db, Tail(family), loaded, selfpath)
             ELSE With(NestedSave(db, album, loaded[album]), LAMBDA r :
                      IF r.err # "" THEN r
                      ELSE With(VisitFamily(r.db, Tail(family), loaded, selfpath), LAMBDA v :
                               [v EXCEPT !.calls = r.calls \o @]))

\* Album._update_family
_update_family(db, id, path_changed) ==
    LET family == IF path_changed THEN get_family(db, id) ELSE get_ancestors(db.albums, id)
    IN  VisitFamily(db, family, db.albums, db.albums[id].path)

\* the save run in a transaction: a failure of a propagated save undoes it all
AlbumSaveAtomic(db, id, mem, orig) ==
    With(SaveSelf(db, id, mem, orig), LAMBDA s :
        IF s.err # ""
        THEN [err |-> s.err, id |-> id, db |-> db, calls |-> <<Call(id, TRUE, s.err)>>,
              resequenced |-> FALSE]
        ELSE With(_update_family(s.db, s.id, s.path_changed), LAMBDA f :
                 [err |-> f.err, id |-> s.id, db |-> IF f.err = "" THEN f.db ELSE db,
                  calls |-> <<Call(s.id, TRUE, f.err)>> \o f.calls,
                  resequenced |-> (f.err = "" /\ mem.series # Null)]))

\* Album.save(traverse=True); resequenced tells whether self.series.resequence() was
\* reached (lines 304-305)
AlbumSave(db, id, mem, orig) ==
    With(SaveSelf(db, id, mem, orig), LAMBDA s :
        IF s.err # ""
        THEN [err |-> s.err, id |-> id, db |-> s.db, calls |-> <<Call(id, TRUE, s.err)>>,
              resequenced |-> FALSE]
        ELSE With(_update_family(s.db, s.id, s.path_changed), LAMBDA f :
                 [err |-> f.err, id |-> s.id, db |-> f.db,
                  calls |-> <<Call(s.id, TRUE, f.err)>> \o f.calls,
                  resequenced |-> (f.err = "" /\ mem.series # Null)]))

(* ------------------------------ Media -------------------------------- *)
Max(a, b) == IF a >= b THEN a ELSE b

\* Media.get_canonical_path
get_canonical_path(db, m, prefix) ==
    IF m.role = "original"
    THEN prefix \o <<"pictures">> \o db.pictures[m.picture].path \o <<".", "jpeg">>
    ELSE prefix \o <<"previews">> \o db.pictures[m.picture].path
                \o <<".", db.specs[m.spec].role, ".", db.specs[m.spec].format>>

\* Media.make_absolute_path_media_relative, after its assertion
make_absolute_path_media_relative(original_path) ==
    LET rel == SubSeq(original_path, Len(MEDIA_ROOT) + 1, Len(original_path))
    IN  IF rel # <<>> /\ Head(rel) = "/" THEN Tail(rel) ELSE rel

Without(f, k) == [x \in DOMAIN f \ {k} |-> f[x]]

\* os.path.dirname: the path up to its last separator
Dirname(path) ==
    LET seps == {i \in 1..Len(path) : path[i] = "/"}
    IN  SubSeq(path, 1, (CHOOSE i \in seps : \A j \in seps : j <= i) - 1)

\* makedirs(dirname(path), exist_ok=True) raises FileExistsError when a regular file
\* is where the directory should be
Obstructed(db, path) == Dirname(path) \in DOMAIN db.files

\* Media.process_file_location
process_file_location(db, m, input_filename, mode) ==
    LET original_path == IF mode = "inplace" THEN input_filename
                         ELSE get_canonical_path(db, m, MEDIA_ROOT \o <<"/">>)
        missing == mode # "inplace" /\ input_filename \notin DOMAIN db.files
        same == mode = "copy" /\ input_filename = original_path
        files1 == IF mode = "inplace" \/ input_filename = original_path THEN db.files
                  ELSE IF mode = "copy"
                       THEN (original_path :> db.files[input_filename]) @@ db.files
                       ELSE (original_path :> db.files[input_filename])
                            @@ Without(db.files, input_filename)
    IN  IF mode \notin {"inplace", "copy", "move"}
        THEN [err |-> "NotImplementedError", files |-> db.files, src |-> <<>>, fileops |-> {}]
        ELSE IF mode # "inplace" /\ Obstructed(db, original_path)
        THEN [err |-> "FileExistsError", files |-> db.files, src |-> <<>>, fileops |-> {}]
        ELSE IF missing
        THEN [err |-> "FileNotFoundError", files |-> db.files, src |-> <<>>, fileops |-> {}]
        ELSE IF same THEN [err |-> "SameFileError", files |-> db.files, src |-> <<>>, fileops |-> {}]
        ELSE IF ~StartsWith(original_path, MEDIA_ROOT)
        THEN [err |-> "AssertionError", files |-> files1, src |-> <<>>,
              fileops |-> IF mode = "inplace" THEN {} ELSE {mode}]
        ELSE [err |-> "", files |-> files1,
              src |-> make_absolute_path_media_relative(original_path),
              fileops |-> IF mode = "inplace" THEN {} ELSE {mode}]

\* Media.objects.get(picture=original_media.picture, spec=spec): the matching rows
ScaledRows(db, p, s) ==
    {i \in 1..Len(db.media) : db.media[i].picture = p /\ db.media[i].spec = s}

\* the except branch of get_or_create_original_media: the file is placed, its
\* size read and the row saved
CreateOriginal(db, p, input_filename, mode) ==
    LET m0 == [picture |-> p, role |-> "original", spec |-> Null, src |-> <<>>,
               width |-> 0, height |-> 0, format |-> "jpeg"]
    IN  With(process_file_location(db, m0, input_filename, mode), LAMBDA loc :
        With([db EXCEPT !.files = loc.files], LAMBDA db1 :
            IF loc.err # ""
            THEN [err |-> loc.err, db |-> db1, id |-> Null, created |-> FALSE,
                  fileops |-> loc.fileops]
            ELSE IF FieldPath(loc.src) \notin DOMAIN db1.files
            THEN [err |-> "FileNotFoundError", db |-> db1, id |-> Null, created |-> FALSE,
                  fileops |-> loc.fileops]
            ELSE IF db1.files[FieldPath(loc.src)] = Garbage
            THEN [err |-> "UnidentifiedImageError", db |-> db1, id |-> Null,
                  created |-> FALSE, fileops |-> loc.fileops]
            ELSE LET image == db1.files[FieldPath(loc.src)]
                     m1 == [m0 EXCEPT !.src = loc.src, !.width = image.w,
                                      !.height = image.h]
                 IN  [err |-> "", db |-> [db1 EXCEPT !.media = Append(db1.media, m1)],
                      id |-> Len(db1.media) + 1, created |-> TRUE,
                      fileops |-> loc.fileops]))

\* the lookup left out: a row is created at every call
AlwaysCreateOriginal(db, p, input_filename, mode) ==
    CreateOriginal(db, p, input_filename, mode)

\* Media.get_or_create_original_media
get_or_create_original_media(db, p, input_filename, mode) ==
    IF OriginalRows(db, p) = {} THEN CreateOriginal(db, p, input_filename, mode)
    ELSE IF Cardinality(OriginalRows(db, p)) > 1
    THEN [err |-> "MultipleObjectsReturned", db |-> db, id |-> Null, created |-> FALSE,
          fileops |-> {}]
    ELSE [err |-> "", db |-> db, id |-> CHOOSE i \in OriginalRows(db, p) : TRUE,
          created |-> FALSE, fileops |-> {}]

\* PIL's Image.thumbnail: shrink to fit within size, keeping the aspect ratio
Thumbnail(w, h, size) ==
    LET x1 == IF w > size[1] THEN size[1] ELSE w
        y1 == IF w > size[1] THEN Max((h * size[1]) \div w, 1) ELSE h
        x2 == IF y1 > size[2] THEN Max((x1 * size[2]) \div y1, 1) ELSE x1
        y2 == IF y1 > size[2] THEN size[2] ELSE y1
    IN  [w |-> x2, h |-> y2, exif |-> NoDate]

\* media.py lines 19-27: the formats that have encoder options
FORMAT_OPTIONS == {"jpeg", "webp"}

\* the row saved first, before the original is opened and scaled
SaveThenScale(db, original, s) ==
    LET spec == db.specs[s]
        m0 == [picture |-> db.media[original].picture, role |-> spec.role, spec |-> s,
               src |-> <<>>, width |-> 0, height |-> 0, format |-> spec.format]
        source == FieldPath(db.media[original].src)
        target == get_canonical_path(db, m0, MEDIA_ROOT \o <<"/">>)
        db1 == [db EXCEPT !.media = Append(db.media, m0)]
        failed(err) == [err |-> err, db |-> db1, id |-> Null, created |-> FALSE,
                        fileops |-> {}]
    IN  IF Obstructed(db, target) THEN failed("FileExistsError")
        ELSE IF source \notin DOMAIN db.files THEN failed("FileNotFoundError")
        ELSE IF db.files[source] = Garbage THEN failed("UnidentifiedImageError")
        ELSE IF spec.format \notin FORMAT_OPTIONS THEN failed("KeyError")
        ELSE LET image == Thumbnail(db.files[source].w, db.files[source].h, spec.size)
                 m1 == [m0 EXCEPT !.src = get_canonical_path(db, m0, <<>>),
                                  !.width = image.w, !.height = image.h]
             IN  [err |-> "", id |-> Len(db.media) + 1, created |-> TRUE,
                  fileops |-> {"write"},
                  db |-> [db EXCEPT !.files = (target :> image) @@ db.files,
                                    !.media = Append(db.media, m1)]]

\* the except branch of get_or_create_scaled_media: the directory is made, the
\* original opened, scaled and written to the canonical path, and the row saved
CreateScaled(db, original, s) ==
    LET spec == db.specs[s]
        m0 == [picture |-> db.media[original].picture, role |-> spec.role, spec |-> s,
               src |-> <<>>, width |-> 0, height |-> 0, format |-> spec.format]
        source == FieldPath(db.media[original].src)
        target == get_canonical_path(db, m0, MEDIA_ROOT \o <<"/">>)
        failed(err) == [err |-> err, db |-> db, id |-> Null, created |-> FALSE,
                        fileops |-> {}]
    IN  IF Obstructed(db, target) THEN failed("FileExistsError")
        ELSE IF source \notin DOMAIN db.files THEN failed("FileNotFoundError")
        ELSE IF db.files[source] = Garbage THEN failed("UnidentifiedImageError")
        ELSE IF spec.format \notin FORMAT_OPTIONS THEN failed("KeyError")
        ELSE LET image == Thumbnail(db.files[source].w, db.files[source].h, spec.size)
                 m1 == [m0 EXCEPT !.src = get_canonical_path(db, m0, <<>>),
                                  !.width = image.w, !.height = image.h]
             IN  [err |-> "", id |-> Len(db.media) + 1, created |-> TRUE,
                  fileops |-> {"write"},
                  db |-> [db EXCEPT !.files = (target :> image) @@ db.files,
                                    !.media = Append(db.media, m1)]]

\* the lookup left out: a row is created at every call
AlwaysCreateScaled(db, original, s) == CreateScaled(db, original, s)

\* Media.get_or_create_scaled_media
get_or_create_scaled_media(db, original, s) ==
    LET p == db.media[original].picture
    IN  IF db.media[original].role # "original"
        THEN [err |-> "AssertionError", db |-> db, id |-> Null, created |-> FALSE,
              fileops |-> {}]
        ELSE IF ScaledRows(db, p, s) = {} THEN CreateScaled(db, original, s)
        ELSE IF Cardinality(ScaledRows(db, p, s)) > 1
        THEN [err |-> "MultipleObjectsReturned", db |-> db, id |-> Null, created |-> FALSE,
              fileops |-> {}]
        ELSE [err |-> "", db |-> db, id |-> CHOOSE i \in ScaledRows(db, p, s) : TRUE,
              created |-> FALSE, fileops |-> {}]

\* the loop of Media._import_local_media over media_specs
RECURSIVE ScaleAll(_, _, _)
ScaleAll(db, original, media_specs) ==
    IF media_specs = <<>> THEN [err |-> "", db |-> db]
    ELSE With(get_or_create_scaled_media(db, original, Head(media_specs)), LAMBDA r :
             IF r.err # "" THEN [err |-> r.err, db |-> r.db]
             ELSE ScaleAll(r.db, original, Tail(media_specs)))

\* MediaSpec.objects.filter(active=True)
ActiveSpecs(db) == SelectSeq([i \in 1..Len(db.specs) |-> i], LAMBDA i : db.specs[i].active)

\* Media._import_local_media
_import_local_media(db, p, input_filename, mode, media_specs, refresh_album) ==
    With(get_or_create_original_media(db, p, input_filename, mode), LAMBDA o :
        IF o.err # ""
        THEN [err |-> o.err, db |-> o.db, calls |-> <<>>, resequenced |-> FALSE]
        ELSE With(ScaleAll(o.db, o.id, media_specs), LAMBDA sc :
                 IF sc.err # "" \/ ~refresh_album
                 THEN [err |-> sc.err, db |-> sc.db, calls |-> <<>>,
                       resequenced |-> FALSE]
                 ELSE With(db.pictures[p].album, LAMBDA a :
                      With(AlbumSave(sc.db, a, sc.db.albums[a], sc.db.albums[a].path),
                           LAMBDA r : [err |-> r.err, db |-> r.db, calls |-> r.calls,
                                       resequenced |-> r.resequenced]))))

(* ----------------------------- actions ------------------------------- *)
DB == [albums |-> albums, order |-> order, pictures |-> pictures, media |-> media,
       files |-> files, specs |-> specs]

NoInst == [id |-> Null, orig |-> <<>>]

\* the task workers, and a worker that runs no task
Workers == {1, 2}

Idle == [pc |-> "idle", original |-> Null, todo |-> <<>>]

NoGuess == [exif |-> NoDate, description |-> <<>>, title |-> <<>>, done |-> FALSE,
            ret |-> NoDate]

Parents == {Null} \cup DOMAIN albums

\* what a save leaves in last: how it ended, the invocations of Album.save it made
\* and whether it reached the resequencing
Outcome(op, id, r) ==
    [op |-> op, id |-> id, err |-> r.err, calls |-> r.calls, resequenced |-> r.resequenced]

Commit(r) ==
    /\ albums' = r.db.albums
    /\ order' = r.db.order
    /\ pictures' = r.db.pictures

\* what a caller writes into slug and title: a slug with a title, or a title alone
Edits == {[slug |-> <<"a">>, title |-> <<"A">>], [slug |-> <<"b">>, title |-> <<"A">>],
          [slug |-> <<>>, title |-> <<"A">>]}

\* album = Album(parent=p, slug=e.slug, title=e.title); album.save()
Create(p, e) ==
    /\ Len(order) < MaxAlbums
    /\ LET mem == [parent |-> p, slug |-> e.slug, title |-> e.title, description |-> <<>>,
                   path |-> <<>>, cover |-> Null, date |-> NoDate, series |-> Null]
       IN  \E r \in {AlbumSave(DB, Null, mem, <<>>)} :
           /\ Commit(r)
           /\ inst' = IF r.err = "" THEN [id |-> r.id, orig |-> <<>>] ELSE NoInst
           /\ last' = Outcome("create", r.id, r)
    /\ UNCHANGED <<media, files, specs, guess, workers>>

\* album = Album.objects.get(id=n); album.parent, album.slug, album.title = ...; album.save()
Edit(n, p, e) ==
    /\ LET mem == [albums[n] EXCEPT !.parent = p, !.slug = e.slug, !.title = e.title]
       IN  \E r \in {AlbumSave(DB, n, mem, albums[n].path)} :
           /\ Commit(r)
           /\ inst' = [id |-> n, orig |-> albums[n].path]
           /\ last' = Outcome("save", n, r)
    /\ UNCHANGED <<media, files, specs, guess, workers>>

\* the instance saved last is changed and saved again
Resave(p, e) ==
    /\ inst.id # Null
    /\ LET mem == [albums[inst.id] EXCEPT !.parent = p, !.slug = e.slug, !.title = e.title]
       IN  \E r \in {AlbumSave(DB, inst.id, mem, inst.orig)} :
           /\ Commit(r)
           /\ last' = Outcome("save", inst.id, r)
    /\ UNCHANGED <<inst, media, files, specs, guess, workers>>

\* Picture(album=a, slug=...).save()
CreatePicture(a) ==
    /\ Len(pictures) < MaxPictures
    /\ LET new == Len(pictures) + 1
       IN  pictures' = Append(pictures, [album |-> a, path |-> PicturePath(DB, a, new),
                                         is_public |-> TRUE])
    /\ last' = [op |-> "picture", id |-> a, err |-> ""]
    /\ UNCHANGED <<albums, order, media, files, specs, inst, guess, workers>>

\* the file uploaded for picture p
InputFile(p) == MEDIA_ROOT \o <<"/", "in">> \o PicSlug(p)

\* Media.import_local_media(picture, input_filename, refresh_album=...), run at once
\* (EDEGAL_USE_CELERY off)
Import(p, refresh_album) ==
    /\ \E r \in {_import_local_media(DB, p, InputFile(p), "inplace", ActiveSpecs(DB),
                                       refresh_album)} :
           /\ Commit(r)
           /\ media' = r.db.media
           /\ files' = r.db.files
           /\ last' = [op |-> IF refresh_album THEN "save" ELSE "import",
                       id |-> IF refresh_album THEN pictures[p].album ELSE p, err |-> r.err,
                       calls |-> r.calls, resequenced |-> r.resequenced]
    /\ UNCHANGED <<specs, inst, guess, workers>>

\* the image uploaded for picture p: every other one carries an EXIF date
Upload(p) == [w |-> 8, h |-> 4, exif |-> IF p % 2 = 1 THEN <<2020, 1, 2>> ELSE NoDate]

\* the MediaSpec rows of a fresh installation
DefaultSpecs ==
    << [role |-> "thumbnail", size |-> <<4, 4>>, format |-> "jpeg", quality |-> 60,
        active |-> TRUE],
       [role |-> "preview", size |-> <<6, 6>>, format |-> "jpeg", quality |-> 60,
        active |-> TRUE] >>

\* an empty gallery, with the uploaded files waiting and the default specs
EmptyGallery ==
    /\ albums = <<>>
    /\ order = <<>>
    /\ pictures = <<>>
    /\ media = <<>>
    /\ files = [f \in {InputFile(p) : p \in 1..MaxPictures} |->
                    Upload(CHOOSE p \in 1..MaxPictures : InputFile(p) = f)]
    /\ specs = DefaultSpecs
    /\ inst = NoInst
    /\ last = [op |-> "init", id |-> Null, err |-> ""]
    /\ ops = 0

Init ==
    /\ EmptyGallery
    /\ guess = NoGuess
    /\ workers = [w \in Workers |-> Idle]

Tick == ops < MaxOps /\ ops' = ops + 1

Next ==
    \/ Tick /\ \E p \in Parents, e \in Edits : Create(p, e)
    \/ Tick /\ \E n \in DOMAIN albums, p \in Parents, e \in Edits : Edit(n, p, e)
    \/ Tick /\ \E p \in Parents, e \in Edits : Resave(p, e)
    \/ Tick /\ \E a \in DOMAIN albums : CreatePicture(a)
    \/ Tick /\ \E p \in DOMAIN pictures, refresh_album \in BOOLEAN : Import(p, refresh_album)

Spec == Init /\ [][Next]_vars

\* the slug of the i-th album of a gallery built without renaming
AlbumSlug(i) == <<<<"a", "b", "c", "d", "e">>[((i - 1) % 5) + 1]>>

Unedited(n) == [slug |-> albums[n].slug, title |-> albums[n].title]

NextCover ==
    \/ \E p \in Parents : Create(p, [slug |-> AlbumSlug(Len(order) + 1), title |-> <<"A">>])
                          /\ UNCHANGED ops
    \/ \E n \in DOMAIN albums : Edit(n, albums[n].parent, Unedited(n)) /\ UNCHANGED ops
    \/ \E a \in DOMAIN albums : CreatePicture(a) /\ UNCHANGED ops
    \/ \E p \in DOMAIN pictures, refresh_album \in BOOLEAN :
            Import(p, refresh_album) /\ UNCHANGED ops

SpecCover == Init /\ [][NextCover]_vars

(* ------------------------- media derivation -------------------------- *)
Modes == {"inplace", "copy", "move"}

\* a file that does not exist
MissingFile == MEDIA_ROOT \o <<"/", "gone">>

\* original_media, created = Media.get_or_create_original_media(picture, input_filename, mode)
GetOrCreateOriginal(p, input_filename, mode) ==
    /\ \E r \in {get_or_create_original_media(DB, p, input_filename, mode)} :
           /\ media' = r.db.media
           /\ files' = r.db.files
           /\ last' = [op |-> "original", id |-> r.id, err |-> r.err, created |-> r.created,
                       fileops |-> r.fileops, picture |-> p, mode |-> mode]
    /\ UNCHANGED <<albums, order, pictures, specs, inst, guess, workers>>

\* scaled_media, created = Media.get_or_create_scaled_media(original_media, spec)
GetOrCreateScaled(original, s) ==
    /\ \E r \in {get_or_create_scaled_media(DB, original, s)} :
           /\ media' = r.db.media
           /\ files' = r.db.files
           /\ last' = [op |-> "scaled", id |-> r.id, err |-> r.err, created |-> r.created,
                       fileops |-> r.fileops, original |-> original, spec |-> s]
    /\ UNCHANGED <<albums, order, pictures, specs, inst, guess, workers>>

\* what an administrator may change in a MediaSpec row
SpecEdits == {[field |-> "size", value |-> <<2, 2>>], [field |-> "format", value |-> "webp"],
              [field |-> "quality", value |-> 80]}

\* a MediaSpec row is edited and saved
EditSpec(s, e) ==
    /\ specs[s][e.field] # e.value
    /\ specs' = [specs EXCEPT ![s][e.field] = e.value]
    /\ last' = [op |-> "spec", id |-> s, err |-> ""]
    /\ UNCHANGED <<albums, order, pictures, media, files, inst, guess, workers>>

\* a gallery of one album that holds MaxPictures pictures, none of them imported
InitMedia ==
    /\ \E r \in {AlbumSave([albums |-> <<>>, order |-> <<>>, pictures |-> <<>>,
                            media |-> <<>>, files |-> <<>>, specs |-> DefaultSpecs],
                           Null, [parent |-> Null, slug |-> <<>>, title |-> <<"A">>,
                                  description |-> <<>>, path |-> <<>>, cover |-> Null,
                                  date |-> NoDate, series |-> Null], <<>>)} :
           /\ albums = r.db.albums
           /\ order = r.db.order
           /\ pictures = [i \in 1..MaxPictures |->
                             [album |-> r.id, path |-> PicturePath(r.db, r.id, i),
                              is_public |-> TRUE]]
    /\ media = <<>>
    /\ files = [f \in {InputFile(p) : p \in 1..MaxPictures} |->
                    Upload(CHOOSE p \in 1..MaxPictures : InputFile(p) = f)]
    /\ specs = DefaultSpecs
    /\ inst = NoInst
    /\ last = [op |-> "init", id |-> Null, err |-> ""]
    /\ ops = 0
    /\ guess = NoGuess
    /\ workers = [w \in Workers |-> Idle]

NextMedia ==
    \/ Tick /\ \E p \in DOMAIN pictures, mode \in Modes :
                  \E input_filename \in {InputFile(p), MissingFile} :
                      GetOrCreateOriginal(p, input_filename, mode)
    \/ Tick /\ \E original \in DOMAIN media, s \in DOMAIN specs : GetOrCreateScaled(original, s)
    \/ Tick /\ \E s \in DOMAIN specs, e \in SpecEdits : EditSpec(s, e)

SpecMedia == InitMedia /\ [][NextMedia]_vars

(* ---------------------------- import tasks --------------------------- *)
\* the picture whose import job is delivered, and the album it is in
JobPicture == 1

\* a task worker w takes a delivery of the job
\* import_local_media.delay(picture.id, input_filename, mode, media_specs_ids, refresh_album)
Deliver(w) ==
    /\ workers[w].pc = "idle"
    /\ ops < MaxDeliveries
    /\ ops' = ops + 1
    /\ workers' = [workers EXCEPT ![w] = [pc |-> "get_original", original |-> Null,
                                          todo |-> ActiveSpecs(DB)]]
    /\ last' = [op |-> "deliver", id |-> w, err |-> ""]
    /\ UNCHANGED <<albums, order, pictures, media, files, specs, inst, guess>>

\* media.py lines 187-193: Media.objects.get(picture=picture, role='original')
GetOriginal(w) ==
    /\ workers[w].pc = "get_original"
    /\ LET rows == OriginalRows(DB, JobPicture)
       IN  /\ workers' = [workers EXCEPT ![w] =
                 IF rows = {} THEN [@ EXCEPT !.pc = "create_original"]
                 ELSE IF Cardinality(rows) > 1 THEN Idle
                 ELSE [@ EXCEPT !.pc = "get_scaled", !.original = CHOOSE i \in rows : TRUE]]
           /\ last' = [op |-> "task", id |-> w,
                       err |-> IF Cardinality(rows) > 1 THEN "MultipleObjectsReturned" ELSE ""]
    /\ UNCHANGED <<albums, order, pictures, media, files, specs, inst, ops, guess>>

\* media.py lines 194-208: the original is placed, read and its row saved
CreateOriginalRow(w) ==
    /\ workers[w].pc = "create_original"
    /\ \E r \in {CreateOriginal(DB, JobPicture, InputFile(JobPicture), "inplace")} :
           /\ media' = r.db.media
           /\ files' = r.db.files
           /\ workers' = [workers EXCEPT ![w] =
                 IF r.err # "" THEN Idle
                 ELSE [@ EXCEPT !.pc = "get_scaled", !.original = r.id]]
           /\ last' = [op |-> "task", id |-> w, err |-> r.err]
    /\ UNCHANGED <<albums, order, pictures, specs, inst, ops, guess>>

\* media.py lines 137-138 and 217-223: the next spec, and
\* Media.objects.get(picture=original_media.picture, spec=spec)
GetScaled(w) ==
    /\ workers[w].pc = "get_scaled"
    /\ LET todo == workers[w].todo
           rows == ScaledRows(DB, JobPicture, Head(todo))
       IN  /\ workers' = [workers EXCEPT ![w] =
                 IF todo = <<>> THEN [@ EXCEPT !.pc = "refresh_album"]
                 ELSE IF rows = {} THEN [@ EXCEPT !.pc = "create_scaled"]
                 ELSE IF Cardinality(rows) > 1 THEN Idle
                 ELSE [@ EXCEPT !.todo = Tail(todo)]]
           /\ last' = [op |-> "task", id |-> w,
                       err |-> IF todo # <<>> /\ Cardinality(rows) > 1
                               THEN "MultipleObjectsReturned" ELSE ""]
    /\ UNCHANGED <<albums, order, pictures, media, files, specs, inst, ops, guess>>

\* media.py lines 224-247: the original is scaled, written and the row saved
CreateScaledRow(w) ==
    /\ workers[w].pc = "create_scaled"
    /\ \E r \in {CreateScaled(DB, workers[w].original, Head(workers[w].todo))} :
           /\ media' = r.db.media
           /\ files' = r.db.files
           /\ workers' = [workers EXCEPT ![w] =
                 IF r.err # "" THEN Idle
                 ELSE [@ EXCEPT !.pc = "get_scaled", !.todo = Tail(@)]]
           /\ last' = [op |-> "task", id |-> w, err |-> r.err]
    /\ UNCHANGED <<albums, order, pictures, specs, inst, ops, guess>>

\* media.py lines 140-141: picture.album.save()
RefreshAlbum(w) ==
    /\ workers[w].pc = "refresh_album"
    /\ LET a == pictures[JobPicture].album
       IN  \E r \in {AlbumSave(DB, a, albums[a], albums[a].path)} :
               /\ Commit(r)
               /\ last' = [op |-> "task", id |-> w, err |-> r.err]
    /\ workers' = [workers EXCEPT ![w] = Idle]
    /\ UNCHANGED <<media, files, specs, inst, ops, guess>>

NextImport ==
    \E w \in Workers :
        \/ Deliver(w)
        \/ GetOriginal(w)
        \/ CreateOriginalRow(w)
        \/ GetScaled(w)
        \/ CreateScaledRow(w)
        \/ RefreshAlbum(w)

SpecImport == InitMedia /\ [][NextImport]_vars

(* --------------------------- date inference -------------------------- *)
DigitChar(n) == <<"0", "1", "2", "3", "4", "5", "6", "7", "8", "9">>[n + 1]

\* a number written with two and with four digits, and without leading zeros
D2(n) == <<DigitChar(n \div 10), DigitChar(n % 10)>>
D4(n) == D2(n \div 100) \o D2(n % 100)
Dn(n) == IF n < 10 THEN <<DigitChar(n)>> ELSE D2(n)

\* the date <<y, m, d>> written as YYYY-MM-DD and as D.M.YYYY
IsoText(date) == D4(date[1]) \o <<"-">> \o D2(date[2]) \o <<"-">> \o D2(date[3])
FinText(date) == Dn(date[3]) \o <<".">> \o Dn(date[2]) \o <<".">> \o D4(date[1])

\* a text with what is written in it: the calendar date in ISO form, the calendar date
\* in day-first form, and whether it holds a date-like text that is no calendar date
Sample(text, iso, fin, bad) == [text |-> text, iso |-> iso, fin |-> fin, bad |-> bad]

Samples ==
    { Sample(<<>>, NoDate, NoDate, FALSE),
      Sample(<<"n", "o", " ", "d", "a", "t", "e">>, NoDate, NoDate, FALSE),
      Sample(<<"R", "o", "o", "m", " ", "1", "0", "1", " ", "2", "0", "2", "0">>,
             NoDate, NoDate, FALSE),
      Sample(<<"o", "n", " ">> \o IsoText(<<2023, 4, 5>>) \o <<" ", "x">>,
             <<2023, 4, 5>>, NoDate, FALSE),
      Sample(IsoText(<<2024, 2, 29>>), <<2024, 2, 29>>, NoDate, FALSE),
      Sample(FinText(<<2022, 3, 14>>) \o <<" ", "p">>, NoDate, <<2022, 3, 14>>, FALSE),
      Sample(FinText(<<2022, 3, 14>>) \o <<" ">> \o IsoText(<<2023, 4, 5>>),
             <<2023, 4, 5>>, <<2022, 3, 14>>, FALSE),
      Sample(IsoText(<<2023, 13, 3>>), NoDate, NoDate, TRUE),
      Sample(IsoText(<<2023, 2, 29>>), NoDate, NoDate, TRUE),
      Sample(FinText(<<2022, 1, 32>>), NoDate, NoDate, TRUE) }

\* what the EXIF data of a cover may give
ExifDates == {NoDate, <<2020, 1, 2>>}

\* an album about to be saved: its cover's EXIF date, its description and its title
InitDate ==
    /\ EmptyGallery
    /\ \E exif \in ExifDates, d \in Samples, t \in Samples :
           guess = [exif |-> exif, description |-> d.text, title |-> t.text,
                    done |-> FALSE, ret |-> NoDate]
    /\ workers = [w \in Workers |-> Idle]

\* self.date = self._guess_date()
GuessDate ==
    /\ ~guess.done
    /\ guess' = [guess EXCEPT !.done = TRUE,
                              !.ret = _guess_date(guess.exif, guess.description, guess.title)]
    /\ last' = [op |-> "guess", id |-> Null, err |-> ""]
    /\ UNCHANGED <<albums, order, pictures, media, files, specs, inst, ops, workers>>

SpecDate == InitDate /\ [][GuessDate]_vars

(* ------------------------------ faults ------------------------------- *)
\* what may happen to a stored file: it is deleted, overwritten with something that
\* is no image, or its EXIF date is stripped or rewritten by a camera with no clock
Damages == {"remove", "garbage", "strip", "clock"}

Damage(f, kind) ==
    /\ kind \in {"strip", "clock"} => files[f] # Garbage
    /\ files' = CASE kind = "remove" -> Without(files, f)
                  [] kind = "garbage" -> [files EXCEPT ![f] = Garbage]
                  [] kind = "strip" -> [files EXCEPT ![f].exif = NoDate]
                  [] kind = "clock" -> [files EXCEPT ![f].exif = UnsetClock]
    /\ files' # files
    /\ last' = [op |-> "damage", id |-> Null, err |-> ""]
    /\ UNCHANGED <<albums, order, pictures, media, specs, inst, guess, workers>>

\* the date written in a title, and the titles a caller gives an album
TitleDate == <<2023, 4, 5>>

Titles == {<<"A">>, <<"o", "n", " ">> \o IsoText(TitleDate)}

\* album = Album.objects.get(id=n); album.title = t; album.date = None; album.save()
Retitle(n, t) ==
    /\ LET mem == [albums[n] EXCEPT !.title = t, !.date = NoDate]
       IN  \E r \in {AlbumSave(DB, n, mem, albums[n].path)} :
           /\ Commit(r)
           /\ inst' = [id |-> n, orig |-> albums[n].path]
           /\ last' = Outcome("save", n, r)
    /\ UNCHANGED <<media, files, specs, guess, workers>>

NextGuess ==
    \/ Tick /\ \E p \in DOMAIN pictures : Import(p, FALSE)
    \/ Tick /\ \E f \in DOMAIN files, kind \in Damages : Damage(f, kind)
    \/ Tick /\ \E n \in DOMAIN albums, t \in Titles : Retitle(n, t)

SpecGuess == InitMedia /\ [][NextGuess]_vars

\* the files of the originals
OriginalFiles ==
    {FieldPath(media[i].src) : i \in {j \in 1..Len(media) : media[j].role = "original"}}

(* ------------------------- ingestion failures ------------------------ *)
\* the directories of the originals and of the derived files
Dirs == {MEDIA_ROOT \o <<"/", "pictures">>, MEDIA_ROOT \o <<"/", "previews">>}

\* a regular file is put where a directory is to be made later
Obstruct(dir) ==
    /\ dir \notin DOMAIN files
    /\ \A f \in DOMAIN files : Dirname(f) # dir
    /\ files' = (dir :> Garbage) @@ files
    /\ last' = [op |-> "damage", id |-> Null, err |-> ""]
    /\ UNCHANGED <<albums, order, pictures, media, specs, inst, guess, workers>>

\* a format that has no entry in FORMAT_OPTIONS
FormatEdits == {[field |-> "format", value |-> "png"]}

\* Media._import_local_media(picture, input_filename, mode, media_specs), the specs
\* being the active ones
Ingest(q, input_filename, mode) ==
    /\ \E r \in {_import_local_media(DB, q, input_filename, mode, ActiveSpecs(DB), FALSE)} :
           /\ media' = r.db.media
           /\ files' = r.db.files
           /\ last' = [op |-> "import", id |-> q, err |-> r.err]
    /\ UNCHANGED <<albums, order, pictures, specs, inst, guess, workers>>

NextIngest ==
    \/ Tick /\ \E q \in DOMAIN pictures, mode \in Modes :
                  \E input_filename \in {InputFile(q), MissingFile} :
                      Ingest(q, input_filename, mode)
    \/ Tick /\ \E f \in DOMAIN files : Damage(f, "garbage")
    \/ Tick /\ \E dir \in Dirs : Obstruct(dir)
    \/ Tick /\ \E s \in DOMAIN specs, e \in FormatEdits : EditSpec(s, e)

SpecIngest == InitMedia /\ [][NextIngest]_vars

(* ------------------------- cascade failures -------------------------- *)
\* the series the albums of the chain belong to
TheSeries == 1

\* a chain of k albums, each the parent of the next, built by k saves
RECURSIVE Chain(_)
Chain(k) ==
    IF k = 0
    THEN [albums |-> <<>>, order |-> <<>>, pictures |-> <<>>, media |-> <<>>,
          files |-> <<>>, specs |-> DefaultSpecs]
    ELSE AlbumSave(Chain(k - 1), Null,
                   [parent |-> IF k = 1 THEN Null ELSE k - 1,
                    slug |-> IF k = 1 THEN <<>> ELSE AlbumSlug(k), title |-> <<"A">>,
                    description |-> <<>>, path |-> <<>>, cover |-> Null, date |-> NoDate,
                    series |-> TheSeries], <<>>).db

InitCascade ==
    /\ albums = Chain(MaxAlbums).albums
    /\ order = Chain(MaxAlbums).order
    /\ pictures = <<>>
    /\ media = <<>>
    /\ files = [f \in {InputFile(p) : p \in 1..MaxPictures} |->
                    Upload(CHOOSE p \in 1..MaxPictures : InputFile(p) = f)]
    /\ specs = DefaultSpecs
    /\ inst = NoInst
    /\ last = [op |-> "init", id |-> Null, err |-> ""]
    /\ ops = 0
    /\ guess = NoGuess
    /\ workers = [w \in Workers |-> Idle]

\* the slugs a caller renames an album to
Slugs == {<<"b">>, <<"x">>}

\* album = Album.objects.get(id=n); album.slug = slug; album.save()
Rename(n, slug) ==
    /\ \E r \in {AlbumSave(DB, n, [albums[n] EXCEPT !.slug = slug], albums[n].path)} :
           /\ Commit(r)
           /\ inst' = [id |-> n, orig |-> albums[n].path]
           /\ last' = [op |-> "save", id |-> n, err |-> r.err, calls |-> r.calls,
                       resequenced |-> r.resequenced, slug |-> slug]
    /\ UNCHANGED <<media, files, specs, guess, workers>>

NextCascade ==
    \/ Tick /\ \E a \in DOMAIN albums : CreatePicture(a)
    \/ Tick /\ \E q \in DOMAIN pictures : Import(q, FALSE)
    \/ Tick /\ \E f \in OriginalFiles \cap DOMAIN files : Damage(f, "remove")
    \/ Tick /\ \E n \in DOMAIN albums, slug \in Slugs : Rename(n, slug)

SpecCascade == InitCascade /\ [][NextCascade]_vars

(* --------------------------- archive export -------------------------- *)
\* Album.get_download_file_path
get_download_file_path(db, a, prefix) ==
    prefix \o <<"downloads">> \o db.albums[a].path \o <<".zip">>

ZipPath(a) == get_download_file_path(DB, a, MEDIA_ROOT \o <<"/">>)

\* Album.is_download_ready
is_download_ready(a) == ZipPath(a) \in DOMAIN files

\* the value None of download_file_url
NoUrl == <<>>

\* Album.download_file_url
download_file_url(a) ==
    IF is_download_ready(a) THEN get_download_file_path(DB, a, <<"/media/">>) ELSE NoUrl

\* an entry of a zip file: its name and whether its content was written
Entry(name, full) == [name |-> name, full |-> full]

README == Entry(<<"README.txt">>, TRUE)

\* f'{picture.slug}.jpg'
JpgName(q) == PicSlug(q) \o <<".jpg">>

\* the pictures of the album, public or not
AllPictures(a) ==
    SelectSeq([i \in 1..Len(pictures) |-> i], LAMBDA i : pictures[i].album = a)

\* self.pictures.filter(is_public=True), oldest first
PublicPictures(a) ==
    SelectSeq([i \in 1..Len(pictures) |-> i],
              LAMBDA i : pictures[i].album = a /\ pictures[i].is_public)

\* Picture.original: the picture's original Media, or Null
Original(q) == IF OriginalRows(DB, q) = {} THEN Null ELSE Min(OriginalRows(DB, q))

\* no export task is running
AllIdle == \A w \in Workers : workers[w] = Idle

\* album_ensure_download.delay(self.id): a worker takes the task
Request(w, a) ==
    /\ workers[w] = Idle
    /\ workers' = [workers EXCEPT ![w] = [pc |-> "check", album |-> a, todo |-> <<>>]]
    /\ last' = [op |-> "request", id |-> w, err |-> ""]
    /\ UNCHANGED <<albums, order, pictures, media, files, specs, inst, guess>>

\* album.py lines 389-391: the task returns if the file exists
CheckReady(w) ==
    /\ workers[w].pc = "check"
    /\ IF is_download_ready(workers[w].album)
       THEN /\ workers' = [workers EXCEPT ![w] = Idle]
            /\ last' = [op |-> "export", id |-> w, err |-> "", wrote |-> FALSE]
       ELSE /\ workers' = [workers EXCEPT ![w].pc = "create"]
            /\ last' = [op |-> "task", id |-> w, err |-> ""]
    /\ UNCHANGED <<albums, order, pictures, media, files, specs, inst, ops, guess>>

\* the file opened with mode 'w': an existing file is truncated
CreateZipTruncating(w) ==
    /\ workers[w].pc = "create"
    /\ workers' = [workers EXCEPT ![w].pc = "readme"]
    /\ files' = (ZipPath(workers[w].album) :> [entries |-> <<>>, open |-> TRUE, owner |-> w])
                 @@ files
    /\ last' = [op |-> "task", id |-> w, err |-> ""]
    /\ UNCHANGED <<albums, order, pictures, media, specs, inst, ops, guess>>

\* album.py lines 393-397: ZipFile(zip_file_path, 'x') creates the file, or raises
\* FileExistsError if it exists
CreateZip(w) ==
    /\ workers[w].pc = "create"
    /\ LET zip_file_path == ZipPath(workers[w].album)
       IN  IF Obstructed(DB, zip_file_path) \/ zip_file_path \in DOMAIN files
           THEN /\ workers' = [workers EXCEPT ![w] = Idle]
                /\ last' = [op |-> "export", id |-> w, err |-> "FileExistsError",
                            wrote |-> FALSE]
                /\ UNCHANGED files
           ELSE /\ workers' = [workers EXCEPT ![w].pc = "readme"]
                /\ files' = (zip_file_path :> [entries |-> <<>>, open |-> TRUE, owner |-> w])
                             @@ files
                /\ last' = [op |-> "task", id |-> w, err |-> ""]
    /\ UNCHANGED <<albums, order, pictures, media, specs, inst, ops, guess>>

\* album.py lines 398-402: README.txt is written and the public pictures queried
WriteReadme(w) ==
    /\ workers[w].pc = "readme"
    /\ files' = [files EXCEPT ![ZipPath(workers[w].album)].entries = Append(@, README)]
    /\ workers' = [workers EXCEPT ![w].pc = "pictures",
                                  ![w].todo = PublicPictures(workers[w].album)]
    /\ last' = [op |-> "task", id |-> w, err |-> ""]
    /\ UNCHANGED <<albums, order, pictures, media, specs, inst, ops, guess>>

\* album.py lines 402-414: the next picture is skipped if it has no original, else
\* its entry is opened and the original's file copied into it; an error, or the end
\* of the loop, closes the zip file
WritePicture(w) ==
    /\ workers[w].pc = "pictures"
    /\ LET zip == ZipPath(workers[w].album)
           todo == workers[w].todo
           original == Original(Head(todo))
       IN  IF todo = <<>>
           THEN /\ files' = [files EXCEPT ![zip].open = FALSE]
                /\ workers' = [workers EXCEPT ![w] = Idle]
                /\ last' = [op |-> "export", id |-> w, err |-> "", wrote |-> TRUE]
           ELSE IF original = Null
           THEN /\ workers' = [workers EXCEPT ![w].todo = Tail(todo)]
                /\ last' = [op |-> "task", id |-> w, err |-> ""]
                /\ UNCHANGED files
           ELSE IF FieldPath(media[original].src) \notin DOMAIN files
           THEN /\ files' = [files EXCEPT ![zip].open = FALSE,
                                          ![zip].entries =
                                               Append(@, Entry(JpgName(Head(todo)), FALSE))]
                /\ workers' = [workers EXCEPT ![w] = Idle]
                /\ last' = [op |-> "export", id |-> w, err |-> "FileNotFoundError",
                            wrote |-> TRUE]
           ELSE /\ files' = [files EXCEPT ![zip].entries =
                                               Append(@, Entry(JpgName(Head(todo)), TRUE))]
                /\ workers' = [workers EXCEPT ![w].todo = Tail(todo)]
                /\ last' = [op |-> "task", id |-> w, err |-> ""]
    /\ UNCHANGED <<albums, order, pictures, media, specs, inst, ops, guess>>

\* picture.is_public = False; picture.save()
Hide(q) ==
    /\ pictures[q].is_public
    /\ pictures' = [pictures EXCEPT ![q].is_public = FALSE]
    /\ last' = [op |-> "hide", id |-> q, err |-> ""]
    /\ UNCHANGED <<albums, order, media, files, specs, inst, guess, workers>>

NextExport ==
    \/ AllIdle /\ Tick /\ \E q \in DOMAIN pictures : Import(q, FALSE)
    \/ AllIdle /\ Tick /\ \E q \in DOMAIN pictures : Hide(q)
    \/ AllIdle /\ Tick /\ \E f \in OriginalFiles \cap DOMAIN files : Damage(f, "remove")
    \/ Tick /\ \E w \in Workers, a \in DOMAIN albums : Request(w, a)
    \/ \E w \in Workers : CheckReady(w)
    \/ \E w \in Workers : CreateZip(w)
    \/ \E w \in Workers : WriteReadme(w)
    \/ \E w \in Workers : WritePicture(w)

SpecExport == InitMedia /\ [][NextExport]_vars

(* -------------------------- resolve by path -------------------------- *)
\* the Series rows: one series, whose path is that of an album with slug "b" under
\* the root album
SeriesTable == <<[path |-> <<"/", "b">>]>>

\* the result of a lookup: the kind of the object returned, or the exception raised
Found(kind, id) == [kind |-> kind, id |-> id]

\* Album.get_album_by_path(path), without extra criteria
get_album_by_path(db, path) ==
    LET series == {i \in DOMAIN SeriesTable : SeriesTable[i].path = path}
        found == {i \in DOMAIN db.pictures : db.pictures[i].path = path}
        shown == {x \in DOMAIN db.albums :
                     db.albums[x].cover # Null /\ HasThumbnail(db, db.albums[x].cover)}
        query == IF found = {} THEN {x \in shown : db.albums[x].path = path}
                 ELSE {x \in shown : \E i \in found : x = db.pictures[i].album}
    IN  IF Cardinality(series) > 1 THEN Found("MultipleObjectsReturned", Null)
        ELSE IF series # {} THEN Found("Series", CHOOSE i \in series : TRUE)
        ELSE IF Cardinality(found) > 1 THEN Found("MultipleObjectsReturned", Null)
        ELSE IF query = {} THEN Found("DoesNotExist", Null)
        ELSE IF Cardinality(query) > 1 THEN Found("MultipleObjectsReturned", Null)
        ELSE Found("Album", CHOOSE x \in query : TRUE)

\* a path that names nothing
NoSuchPath == <<"/", "n", "o">>

\* the paths a client asks for
Queries ==
    {albums[x].path : x \in DOMAIN albums} \cup {pictures[i].path : i \in DOMAIN pictures}
        \cup {SeriesTable[i].path : i \in DOMAIN SeriesTable} \cup {NoSuchPath}

\* Album.get_album_by_path(path)
Resolve(path) ==
    /\ last' = [op |-> "resolve", id |-> Null, err |-> "", path |-> path,
                ret |-> get_album_by_path(DB, path)]
    /\ UNCHANGED <<albums, order, pictures, media, files, specs, inst, guess, workers>>

NextResolve ==
    \/ Tick /\ \E p \in Parents :
                  Create(p, [slug |-> AlbumSlug(Len(order) + 1), title |-> <<"A">>])
    \/ Tick /\ \E a \in DOMAIN albums : CreatePicture(a)
    \/ Tick /\ \E q \in DOMAIN pictures, refresh_album \in BOOLEAN : Import(q, refresh_album)
    \/ Tick /\ \E path \in Queries : Resolve(path)

SpecResolve == Init /\ [][NextResolve]_vars

(* ---------------------------- reparenting ---------------------------- *)
\* album = Album.objects.get(id=n); album.parent = p; album.save()
Move(n, p) ==
    /\ \E r \in {AlbumSave(DB, n, [albums[n] EXCEPT !.parent = p], albums[n].path)} :
           /\ Commit(r)
           /\ last' = [op |-> "move", id |-> n, err |-> r.err, parent |-> p]
    /\ inst' = [id |-> n, orig |-> albums[n].path]
    /\ UNCHANGED <<media, files, specs, guess, workers>>

NextMove ==
    \/ Tick /\ \E p \in Parents :
                  Create(p, [slug |-> AlbumSlug(Len(order) + 1), title |-> <<"A">>])
    \/ Tick /\ \E n \in DOMAIN albums, p \in Parents : Move(n, p)

SpecMove == Init /\ [][NextMove]_vars

(* ------------------------------ resaving ----------------------------- *)
\* album = Album.objects.get(id=n); album.title = t; album.save(); last keeps the
\* cover and the date the album had when it was loaded
Keep(n, t) ==
    /\ \E r \in {AlbumSave(DB, n, [albums[n] EXCEPT !.title = t], albums[n].path)} :
           /\ Commit(r)
           /\ last' = [op |-> "keep", id |-> n, err |-> r.err, cover |-> albums[n].cover,
                       date |-> albums[n].date]
    /\ inst' = [id |-> n, orig |-> albums[n].path]
    /\ UNCHANGED <<media, files, specs, guess, workers>>

\* the number of operations of a run of resaving
MaxSteps == 7

Step == ops < MaxSteps /\ ops' = ops + 1

NextKeep ==
    \/ Step /\ \E p \in Parents :
                  Create(p, [slug |-> AlbumSlug(Len(order) + 1), title |-> <<"A">>])
    \/ Step /\ \E n \in DOMAIN albums, t \in Titles : Keep(n, t)
    \/ Step /\ \E a \in DOMAIN albums : CreatePicture(a)
    \/ Step /\ \E p \in DOMAIN pictures, refresh_album \in BOOLEAN : Import(p, refresh_album)

SpecKeep == Init /\ [][NextKeep]_vars

(* --------------------------- blank albums ---------------------------- *)
\* an album saved with an empty title and an empty slug, or with both set
BlankEdits == {[slug |-> <<>>, title |-> <<>>], [slug |-> <<"a">>, title |-> <<"A">>],
               [slug |-> <<"b">>, title |-> <<"A">>]}

NextBlank ==
    \/ Tick /\ \E p \in Parents, e \in BlankEdits : Create(p, e)
    \/ Tick /\ \E n \in DOMAIN albums, p \in Parents, e \in BlankEdits : Edit(n, p, e)

SpecBlank == Init /\ [][NextBlank]_vars

(* ------------------------------ claims ------------------------------- *)
\* the path the invariant of the data model gives node n
PathOf(n) ==
    IF albums[n].parent = Null THEN <<"/">>
    ELSE LET pth == albums[albums[n].parent].path \o <<"/">> \o albums[n].slug
         IN IF StartsWith(pth, <<"/", "/">>) THEN Tail(pth) ELSE pth

PathsConsistent == \A n \in DOMAIN albums : albums[n].path = PathOf(n)

\* a top-level Album.save has just completed without an error
SaveCompleted == last.op \in {"create", "save"} /\ last.err = ""

\* C1: after any top-level save has completed, every node's path is "/" if it has no
\* parent and parent's path + "/" + slug otherwise (the doubled leading separator
\* collapsed), after any sequence of creates, renames and re-parentings
C1_PathInvariant == SaveCompleted => PathsConsistent

\* a save of node n that changed its slug and kept its parent has just completed
Renamed(n) ==
    /\ n \in DOMAIN albums
    /\ last'.op = "save" /\ last'.id = n /\ last'.err = ""
    /\ albums'[n].slug # albums[n].slug
    /\ albums'[n].parent = albums[n].parent

\* C2: when a node's slug is changed and the node saved, every descendant and every
\* picture of the node or of a descendant has a path that starts with the node's new
\* path, and every path outside the node's subtree is as it was before the save
C2_RenameCascades ==
    [][\A n \in DOMAIN albums : Renamed(n) =>
          /\ \A x \in Subtree(albums', n) : StartsWith(albums'[x].path, albums'[n].path)
          /\ \A i \in DOMAIN pictures :
                IF pictures[i].album \in Subtree(albums', n)
                THEN StartsWith(pictures'[i].path, albums'[n].path)
                ELSE pictures'[i].path = pictures[i].path
          /\ \A x \in DOMAIN albums \ Subtree(albums', n) : albums'[x].path = albums[x].path
      ]_vars

SiblingSlugsUnique ==
    \A x, y \in DOMAIN albums :
        (x # y /\ albums[x].parent # Null /\ albums[x].parent = albums[y].parent)
            => albums[x].slug # albums[y].slug

\* C3: no two nodes with the same parent ever have the same slug; a save that would
\* give a node the (parent, slug) of a sibling, the slug set or derived from the
\* title, ends with an error and changes no stored node or picture
C3_UniqueSiblingSlug ==
    /\ []SiblingSlugsUnique
    /\ [][last'.err = "IntegrityError" =>
            /\ last'.op \in {"create", "save"}
            /\ UNCHANGED <<albums, order, pictures, media, files>>]_vars

\* a save was rejected for its slug, which was derived from the title
C3_Rejected ==
    /\ last.err = "IntegrityError"
    /\ \E x, y \in DOMAIN albums :
          x # y /\ albums[x].parent = albums[y].parent /\ albums[x].parent # Null

\* the step is a completed top-level save of the leaf n, which had no cover and owns
\* the one picture q
LeafSaved(n, q) ==
    /\ last'.op = "save" /\ last'.id = n /\ last'.err = ""
    /\ \A x \in DOMAIN albums : albums[x].parent # n
    /\ PicturesOf(DB, n) = {q}
    /\ albums[n].cover = Null

\* the children of n's parent placed before n whose cover has a thumbnail, after the step
EarlierCovered(n) ==
    {x \in DOMAIN albums :
        /\ x # n /\ albums[x].parent = albums[n].parent
        /\ \E i, j \in 1..Len(order) : i < j /\ order[i] = x /\ order[j] = n
        /\ albums[x].cover # Null /\ HasThumbnail([media |-> media'], albums[x].cover)}

C5_CoverReachesAncestors ==
    (SaveCompleted /\ albums[last.id].cover # Null
        /\ HasThumbnail(DB, albums[last.id].cover))
    => \A x \in AncestorSet(albums, last.id) : albums[x].cover # Null

\* the picture has an original: the next call is a second call
HasOriginal(p) == OriginalRows(DB, p) # {}

\* C6: a call of get_or_create_original_media for a picture that has an original, in
\* any mode, returns that record with created = false, leaves every record with its
\* src, width and height and copies, moves or writes no file; the first call returns
\* the record it creates
C6_OriginalIdempotent ==
    [][\A p \in DOMAIN pictures : (last'.op = "original" /\ last'.picture = p) =>
          IF HasOriginal(p)
          THEN /\ last'.err = "" /\ ~last'.created
               /\ OriginalRows(DB, p) = {last'.id}
               /\ last'.fileops = {}
               /\ media' = media /\ files' = files
          ELSE last'.err = "" => (last'.created /\ OriginalRows([media |-> media'], p) = {last'.id})
      ]_vars

\* a second call, in move mode, has returned the original without creating it
C6_SecondCall ==
    /\ last.op = "original" /\ last.err = "" /\ ~last.created
    /\ last.mode = "move"
    /\ media[last.id].picture = last.picture /\ media[last.id].role = "original"

\* C7: a call of get_or_create_scaled_media for a (picture, spec) that has a media
\* returns that record with created = false, writes no file and leaves every record
\* as it is, whatever the spec's size, format and quality are now
C7_ScaledIdempotent ==
    [][\A s \in DOMAIN specs :
          (/\ last'.op = "scaled" /\ last'.spec = s
           /\ media[last'.original].role = "original"
           /\ ScaledRows(DB, media[last'.original].picture, s) # {}) =>
              /\ last'.err = "" /\ ~last'.created
              /\ ScaledRows(DB, media[last'.original].picture, s) = {last'.id}
              /\ last'.fileops = {}
              /\ media' = media /\ files' = files
      ]_vars

\* a media was returned, not created, for a spec whose size and format were edited
\* after it was derived
C7_AfterSpecEdit ==
    /\ last.op = "scaled" /\ last.err = "" /\ ~last.created
    /\ specs[last.spec].size # DefaultSpecs[last.spec].size
    /\ specs[last.spec].format # DefaultSpecs[last.spec].format
    /\ media[last.id].format # specs[last.spec].format
    /\ media[last.id].width > specs[last.spec].size[1]

\* C8: in every state reached by deliveries of the import job of one picture, run one
\* after another or interleaved on two workers, the picture has at most one original
\* media and at most one media for each spec
C8_AtMostOneMedia ==
    \A p \in DOMAIN pictures :
        /\ Cardinality(OriginalRows(DB, p)) <= 1
        /\ \A s \in DOMAIN specs : Cardinality(ScaledRows(DB, p, s)) <= 1

\* the samples the description and the title of the call were taken from
SamplesOf(d, t) ==
    d \in Samples /\ t \in Samples /\ d.text = guess.description /\ t.text = guess.title

\* the first strategy that succeeds: the cover's EXIF date, the ISO date of the
\* description or the title, the day-first date of the description or the title
FirstSuccess(exif, d, t) ==
    IF exif # NoDate THEN exif
    ELSE IF d.iso # NoDate THEN d.iso
    ELSE IF t.iso # NoDate THEN t.iso
    ELSE IF d.fin # NoDate THEN d.fin
    ELSE IF t.fin # NoDate THEN t.fin
    ELSE NoDate

\* C9: date inference returns the result of the first strategy that succeeds: the
\* cover's capture date, the ISO date in description or title, the day-first date in
\* description or title, and no date for texts with no date (texts holding a date-like
\* text that is no calendar date are left to C10)
C9_FirstStrategyWins ==
    \A d, t \in Samples :
        (guess.done /\ SamplesOf(d, t) /\ ~d.bad /\ ~t.bad)
            => guess.ret = FirstSuccess(guess.exif, d, t)

\* C10: when the description holds a date-like text that is no calendar date, the
\* match is rejected and the remaining sources and patterns are tried: a calendar
\* date in the title, or in a later pattern, is inferred
C10_InvalidDateSkipped ==
    \A d, t \in Samples :
        (guess.done /\ SamplesOf(d, t) /\ guess.exif = NoDate /\ d.bad /\ ~t.bad)
            => guess.ret = FirstSuccess(NoDate, d, t)

\* C11: in text-based inference the description is preferred to the title: when the
\* cover gives no date and the description holds a calendar date in either pattern,
\* the inferred date is a date of the description, whatever the title holds
C11_DescriptionPreferred ==
    \A d, t \in Samples :
        (guess.done /\ SamplesOf(d, t) /\ guess.exif = NoDate
            /\ (d.iso # NoDate \/ d.fin # NoDate))
            => guess.ret \in {d.iso, d.fin} \ {NoDate}

\* the cover whose EXIF data a save of album n reads
CoverAtSave(n) ==
    IF albums[n].cover # Null THEN albums[n].cover ELSE _select_cover_picture(DB, n)

PictureEntries(a) ==
    {Entry(JpgName(q), TRUE) :
        q \in {i \in DOMAIN pictures :
                  pictures[i].album = a /\ pictures[i].is_public /\ HasOriginal(i)}}

\* C13: an export that completes creates one archive whose entries are README.txt
\* followed by exactly one entry {slug}.jpg for each public picture of the node that
\* has an original: hidden pictures are left out and a public picture without an
\* original is skipped; an export run while the archive exists writes nothing
C13_ExportEntries ==
    [][\A w \in Workers : (last'.op = "export" /\ last'.id = w /\ last'.err = "") =>
          LET a == workers[w].album
              zip == ZipPath(a)
          IN  IF last'.wrote
              THEN /\ zip \in DOMAIN files'
                   /\ ~files'[zip].open
                   /\ Head(files'[zip].entries) = README
                   /\ Range(Tail(files'[zip].entries)) = PictureEntries(a)
                   /\ Len(files'[zip].entries) = 1 + Cardinality(PictureEntries(a))
              ELSE zip \in DOMAIN files /\ files' = files
      ]_vars

\* an export of an album with a public picture that has an original, and a hidden
\* picture or one without an original, has completed: README.txt and one entry
C13_Exported ==
    /\ last.op = "export" /\ last.err = "" /\ last.wrote
    /\ \E a \in DOMAIN albums :
          /\ is_download_ready(a)
          /\ Len(files[ZipPath(a)].entries) = 2
          /\ \E q \in DOMAIN pictures :
                pictures[q].album = a /\ (~pictures[q].is_public \/ ~HasOriginal(q))

\* the archive files
Archives == {ZipPath(a) : a \in DOMAIN albums} \cap DOMAIN files

\* C14: when two exporters run for the same node, the archive file is created by one
\* of them only: an exporter that did not create it returns without writing because
\* the file exists, or fails with FileExistsError at the exclusive creation; a file
\* that exists is never created anew, overwritten or truncated
C14_ExclusiveCreate ==
    /\ [][\A zip \in Archives :
             /\ zip \in DOMAIN files'
             /\ files'[zip].owner = files[zip].owner
             /\ Len(files'[zip].entries) >= Len(files[zip].entries)
             /\ SubSeq(files'[zip].entries, 1, Len(files[zip].entries)) = files[zip].entries
         ]_vars
    /\ [][\A w \in Workers : (last'.op = "export" /\ last'.id = w) =>
             LET zip == ZipPath(workers[w].album)
             IN  IF last'.wrote THEN files'[zip].owner = w
                 ELSE /\ zip \in DOMAIN files
                      /\ files' = files
                      /\ last'.err \in {"", "FileExistsError"}
         ]_vars

\* the two exporters raced: one created the file and the other failed at the
\* exclusive creation
C14_Collision ==
    /\ last.op = "export" /\ last.err = "FileExistsError"
    /\ \E zip \in Archives : files[zip].owner # last.id

PathIn(albs, n) ==
    IF albs[n].parent = Null THEN <<"/">>
    ELSE LET pth == albs[albs[n].parent].path \o <<"/">> \o albs[n].slug
         IN IF StartsWith(pth, <<"/", "/">>) THEN Tail(pth) ELSE pth

\* C16: if the propagated save of a family member fails during a triggering save, the
\* triggering save ends with that failure; the triggering node and the family members
\* saved before the failing one keep their new stored state; the failing member and
\* those after it are not saved; and the resequencing of the series is not run
C16_PartialCascade ==
    [][(last'.op = "save" /\ \E i \in 2..Len(last'.calls) : last'.calls[i].err # "") =>
          LET calls == last'.calls
              n == last'.id
              saved == {calls[i].album : i \in 1..(Len(calls) - 1)}
          IN  /\ last'.err # "" /\ last'.err = calls[Len(calls)].err
              /\ \A i \in 2..(Len(calls) - 1) : calls[i].err = ""
              /\ albums'[n].slug = last'.slug
              /\ \A x \in saved : albums'[x].path = PathIn(albums', x)
              /\ \A x \in DOMAIN albums \ saved : albums'[x] = albums[x]
              /\ ~last'.resequenced
      ]_vars

\* a rename has failed at the second family member: the node has its new slug, an
\* ancestor was saved before the failure
C16_FailedMidway ==
    /\ last.op = "save" /\ last.err = "FileNotFoundError"
    /\ Len(last.calls) = 3 /\ last.calls[2].err = "" /\ last.calls[3].err # ""
    /\ albums[last.id].slug = <<"x">>
    /\ last.calls[2].album \in AncestorSet(albums, last.id)

\* the artifacts of picture q that have no Media record in the table m: Null for
\* the original, or an active spec
Lacking(m, q) ==
    (IF OriginalRows([media |-> m], q) = {} THEN {Null} ELSE {})
    \cup {s \in Range(ActiveSpecs(DB)) : ScaledRows([media |-> m], q, s) = {}}

\* C17: if the ingestion of the original or the derivation for a spec fails before its
\* Media record is saved (the file cannot be copied or moved, is no image, cannot be
\* encoded or written), the import ends with the failure, the artifact has no Media
\* record afterwards, nor have the specs after it, and the records of the original
\* and of the specs before it are stored; an import that ends without a failure leaves
\* a record for every artifact
C17_FailedArtifactNotStored ==
    [][\A q \in DOMAIN pictures : (last'.op = "import" /\ last'.id = q) =>
          LET active == ActiveSpecs(DB)
              lacking == Lacking(media', q)
          IN  /\ (last'.err # "") = (lacking # {})
              /\ SubSeq(media', 1, Len(media)) = media
              /\ Null \in lacking => media' = media
              /\ \A i, j \in 1..Len(active) :
                    (i < j /\ active[i] \in lacking) =>
                        ScaledRows([media |-> media'], q, active[j])
                            = ScaledRows(DB, q, active[j])
              /\ Len(media') - Len(media) = Cardinality(Lacking(media, q) \ lacking)
      ]_vars

\* an import has failed at the second spec, whose format cannot be encoded: the
\* original and the first spec's media, created by this import, are stored
C17_FailedAtSecondSpec ==
    /\ last.op = "import" /\ last.err = "KeyError"
    /\ Lacking(media, last.id) = {2}
    /\ Len(media) = 2

\* C18: get_album_by_path tries Series, Picture and Node in that order and returns
\* the first hit: the Series with the path; else the Node that owns the Picture with
\* the path; else the Node with the path; not-found is reported only when the path
\* is that of no Series, no Picture and no Node
C18_FirstHit ==
    last.op = "resolve" =>
        LET series == {i \in DOMAIN SeriesTable : SeriesTable[i].path = last.path}
            owners == {pictures[i].album : i \in {j \in DOMAIN pictures :
                                                   pictures[j].path = last.path}}
            nodes == {x \in DOMAIN albums : albums[x].path = last.path}
        IN  IF series # {} THEN last.ret.kind = "Series" /\ last.ret.id \in series
            ELSE IF owners # {} THEN last.ret.kind = "Album" /\ last.ret.id \in owners
            ELSE IF nodes # {} THEN last.ret.kind = "Album" /\ last.ret.id \in nodes
            ELSE last.ret.kind = "DoesNotExist"

\* the k-th ancestor of x by the stored parent references, Null above a root
RECURSIVE Climb(_, _, _)
Climb(albs, x, k) == IF x = Null \/ k = 0 THEN x ELSE Climb(albs, albs[x].parent, k - 1)

Acyclic(albs) == \A x \in DOMAIN albs : Climb(albs, x, Cardinality(DOMAIN albs)) = Null

C20_AvailableIsComplete ==
    \A a \in DOMAIN albums :
        (is_download_ready(a) /\ download_file_url(a) # NoUrl) =>
            /\ README \in Range(files[ZipPath(a)].entries)
            /\ PictureEntries(a) \subseteq Range(files[ZipPath(a)].entries)

\* C21: no save, top-level or nested, replaces a cover or a date that is set: an
\* album that has a cover keeps it, also when a child with a cover or an earlier
\* picture exists by now, and an album that has a date keeps it
C21_SetValuesKept ==
    [][\A x \in DOMAIN albums :
          /\ albums[x].cover # Null => albums'[x].cover = albums[x].cover
          /\ albums[x].date # NoDate => albums'[x].date = albums[x].date]_vars

\* an album that had one of its own pictures as cover, and a date, has been saved
\* when a child with a thumbnailed cover existed and when neither the cover's EXIF
\* data nor the texts gave the date
C21_KeptAgainstSelection ==
    /\ last.op = "keep" /\ last.err = ""
    /\ last.cover # Null /\ last.date # NoDate
    /\ pictures[last.cover].album = last.id
    /\ CoveredSubalbums(DB, last.id) # <<>>
    /\ _select_cover_picture(DB, last.id) # last.cover
    /\ _guess_date(ReadExif(DB, last.cover).date, albums[last.id].description,
                   albums[last.id].title) # last.date

\* C22: when an import of a picture ends without a failure, the picture has exactly
\* one original media and exactly one media for each spec of the list, whether the
\* original existed before or not; the save of the album starts only when every spec
\* of the list has a media, and a delivery that fails saves no album
C22_OneMediaEachThenSave ==
    [][\A w \in Workers :
          /\ workers[w].pc = "refresh_album" =>
                \A s \in Range(ActiveSpecs(DB)) : ScaledRows(DB, JobPicture, s) # {}
          /\ (workers[w].pc = "refresh_album" /\ workers'[w] = Idle /\ last'.err = "") =>
                /\ Cardinality(OriginalRows([media |-> media'], JobPicture)) = 1
                /\ \A s \in Range(ActiveSpecs(DB)) :
                       Cardinality(ScaledRows([media |-> media'], JobPicture, s)) = 1
          /\ (workers[w].pc \notin {"idle", "refresh_album"} /\ workers'[w] = Idle) =>
                last'.err # "" /\ albums' = albums
      ]_vars

\* C23: every save that completes leaves the saved node with the path made from its
\* parent and slug, also when its title and slug are empty: "/" for a parentless
\* node, else the path made from the parent's stored path
C23_PathRecomputed ==
    (last.op \in {"create", "save"} /\ last.err = "" /\ last.id \in DOMAIN albums) =>
        albums[last.id].path = _make_path(DB, albums[last.id])
====
